---- MODULE Spec2Model ----
(***************************************************************************)
(* Model of the crawl-and-extract pipeline of the Smart Web Scraper:       *)
(*   scraper.py  run_scraper / scrape_article / fetch_page_playwright      *)
(*   gui.py      ScraperThread, MainWindow.start_scraper / stop_scraper /  *)
(*               on_scraper_done                                           *)
(*                                                                         *)
(* A URL is a natural number.  The web (which page links to which) is the  *)
(* environment: it is chosen in the initial state and never changes.       *)
(* Every render (fetch_page_playwright) may succeed or fail, and every     *)
(* write of an output file may succeed or raise, independently, each time  *)
(* it is called.                                                           *)
(***************************************************************************)
EXTENDS Naturals, Sequences, FiniteSets

VARIABLES
    web,         \* [Urls -> SUBSET Urls]: the links each page carries
    workers,     \* the ScraperThread objects: state, url, depth, _stop_event
    frame,       \* the activation of run_scraper run by each ScraperThread
    gui,         \* MainWindow: self.thread, the two buttons, the log lines
    done_queue,  \* done_signal emissions queued for the display thread
    page         \* scrape_article lines 82-86: a page title becoming a file name

vars == <<web, workers, frame, gui, done_queue, page>>

----------------------------------------------------------------------------
(* Program constants *)

\* scraper.py:163  if total_files >= 50
PageLimit == 50
\* gui.py:245  self.depth_spin.setRange(1, 5)
SpinMin == 1
SpinMax == 5
\* scraper.py:18  [:100]
NameLimit == 100
\* scraper.py:15  the length of strftime("%Y-%m-%d_%H-%M-%S")
TimestampLen == 19

(* Bounds of the model *)

\* pages of the small cyclic webs
RingSize == 3
\* largest small depth handed to run_scraper directly
MaxDepth == 3
\* ScraperThread objects the display thread may create
MaxThreads == 2
\* largest depth chosen in the spin box in the modelled GUI sessions
MaxGuiDepth == 2
\* URLs typed into the URL field in the modelled GUI sessions
MaxGuiUrls == 1
\* longest free part at the head of a page title
MaxHead == 2
\* how far the padded titles go below and above NameLimit characters
MaxSlack == 2

NumUrls == PageLimit + 1
Urls == 1..NumUrls
RingUrls == 1..RingSize
Threads == 1..MaxThreads

None == "None"
Markup == "markup"
Path == "filepath"

----------------------------------------------------------------------------
(* The webs the crawler is run on *)

\* a ring: every page links to the next one, the last one to the first
RingWeb == [u \in Urls |-> IF u \in RingUrls THEN {(u % RingSize) + 1} ELSE {}]

\* a ring in which every page also links to itself
SelfLoopWeb == [u \in Urls |-> IF u \in RingUrls THEN {u, (u % RingSize) + 1} ELSE {}]

\* a ring with chords: every page links to the next two pages
ChordWeb ==
    [u \in Urls |-> IF u \in RingUrls
                    THEN {(u % RingSize) + 1, ((u + 1) % RingSize) + 1}
                    ELSE {}]

\* a chain of PageLimit - 1 pages whose last page links to two further pages
LongWeb ==
    [u \in Urls |-> IF u < PageLimit - 1 THEN {u + 1}
                    ELSE IF u = PageLimit - 1 THEN {u + 1, u + 2}
                    ELSE {}]

\* pages without links
LeafWeb == [u \in Urls |-> {}]

Webs == {RingWeb, SelfLoopWeb, ChordWeb, LongWeb, LeafWeb}
GuiWebs == {SelfLoopWeb, LeafWeb}

Depths == (1..MaxDepth) \cup {PageLimit}

\* the values of the depth spin box used in the modelled sessions
GuiDepths == {d \in SpinMin..SpinMax : d <= MaxGuiDepth}
GuiUrls == 1..MaxGuiUrls

----------------------------------------------------------------------------
(* Helpers *)

Range(s) == {s[k] : k \in 1..Len(s)}

\* list(links): a Python set is iterated in an order the program does not fix
Orders(S) ==
    {s \in [1..Cardinality(S) -> S] : \A a, b \in 1..Cardinality(S) : a # b => s[a] # s[b]}

\* extract_links: the set of absolute links of the rendered page
extract_links(u) == web[u]

MoreLevelsOffByOne(level, depth) == level <= depth

\* run_scraper line 135: for level in range(depth)
MoreLevels(level, depth) == level < depth

NeverVisited(visited, u) == FALSE

\* run_scraper line 142: if url in visited: continue
AlreadyVisited(visited, u) == u \in visited

CountAlways(total, saved_file) == total + 1

\* run_scraper lines 150-151: if saved_file: total_files += 1
CountSaved(total, saved_file) == IF saved_file # None THEN total + 1 ELSE total

ExtendLinksNew(next_links, order) ==
    next_links \o SelectSeq(order, LAMBDA u : u \notin Range(next_links))

\* run_scraper line 160: next_links.extend(list(links))
ExtendLinks(next_links, order) == next_links \o order

\* run_scraper line 163: if total_files >= 50
LimitReached(total) == total >= PageLimit

DoneCountTotal(result) == result

\* ScraperThread.run line 67: 1 if result else 0
DoneCount(result) == IF result # 0 THEN 1 ELSE 0

----------------------------------------------------------------------------
(* State after construction *)

\* a ScraperThread that was never constructed; emitted records the counts the
\* thread's done_signal has carried so far
NoThread ==
    [state |-> "unused", url |-> 0, depth |-> 0, stop_event |-> FALSE, emitted |-> <<>>]

\* ScraperThread.__init__ followed by start()
NewThread(url, depth) ==
    [state |-> "running", url |-> url, depth |-> depth, stop_event |-> FALSE,
     emitted |-> <<>>]

\* no activation of run_scraper.  Beside the locals of run_scraper (level is
\* the number of levels started, i the number of to_visit entries the per-URL
\* loop has taken), a frame records what the call has done: renders[u] counts
\* the extraction renders of u (scrape_article line 76), files the output
\* files written in full (scrape_article lines 119-120).
NoFrame ==
    [pc |-> "idle", visited |-> {}, to_visit |-> <<>>, next_links |-> <<>>,
     total_files |-> 0, level |-> 0, i |-> 0, url |-> 0,
     saved_file |-> None, html |-> None, result |-> 0,
     renders |-> [u \in Urls |-> 0], files |-> 0]

\* run_scraper lines 131-133
NewFrame(start_url) ==
    [NoFrame EXCEPT !.pc = "level", !.to_visit = <<start_url>>]

\* MainWindow.__init__: self.thread = None, Start enabled
NewGui ==
    [thread |-> 0, start_enabled |-> TRUE, stop_enabled |-> FALSE,
     dashboard_log |-> <<>>]

\* no page is being named
NoPage ==
    [pc |-> "idle", has_title |-> FALSE, title_tag |-> <<>>,
     now |-> [Y |-> 0, M |-> 0, D |-> 0, h |-> 0, m |-> 0, s |-> 0],
     title |-> <<>>, safe |-> <<>>, filename |-> <<>>]

\* one ScraperThread running run_scraper(start_url, depth=depth)
Init ==
    /\ web \in Webs
    /\ \E start_url \in RingUrls, depth \in Depths :
          /\ workers = [w \in Threads |-> IF w = 1 THEN NewThread(start_url, depth)
                                                    ELSE NoThread]
          /\ frame = [w \in Threads |-> IF w = 1 THEN NewFrame(start_url) ELSE NoFrame]
    /\ gui = NewGui
    /\ done_queue = <<>>
    /\ page = NoPage

----------------------------------------------------------------------------
(* run_scraper *)

Running(w) == workers[w].state = "running"

\* line 135: the next level starts (lines 136-139)
ForLevel(w) ==
    /\ Running(w)
    /\ frame[w].pc = "level"
    /\ MoreLevels(frame[w].level, workers[w].depth)
    /\ frame' = [frame EXCEPT ![w] = [@ EXCEPT !.pc = "url",
                                               !.level = @ + 1,
                                               !.next_links = <<>>,
                                               !.i = 0]]
    /\ UNCHANGED <<web, workers, gui, done_queue, page>>

\* line 135 exhausted, line 170: return total_files
ReturnTotal(w) ==
    /\ Running(w)
    /\ frame[w].pc = "level"
    /\ ~MoreLevels(frame[w].level, workers[w].depth)
    /\ frame' = [frame EXCEPT ![w] = [@ EXCEPT !.pc = "returned",
                                               !.result = frame[w].total_files]]
    /\ UNCHANGED <<web, workers, gui, done_queue, page>>

\* lines 141-143: the next URL of to_visit is one already visited
SkipVisited(w) ==
    /\ Running(w)
    /\ frame[w].pc = "url"
    /\ frame[w].i < Len(frame[w].to_visit)
    /\ AlreadyVisited(frame[w].visited, frame[w].to_visit[frame[w].i + 1])
    /\ frame' = [frame EXCEPT ![w] = [@ EXCEPT !.i = @ + 1,
                                               !.url = frame[w].to_visit[frame[w].i + 1]]]
    /\ UNCHANGED <<web, workers, gui, done_queue, page>>

\* lines 141-144: the next URL of to_visit is new: visited.add(url)
TakeUrl(w) ==
    /\ Running(w)
    /\ frame[w].pc = "url"
    /\ frame[w].i < Len(frame[w].to_visit)
    /\ ~AlreadyVisited(frame[w].visited, frame[w].to_visit[frame[w].i + 1])
    /\ frame' = [frame EXCEPT ![w] =
                    [@ EXCEPT !.i = @ + 1,
                              !.url = frame[w].to_visit[frame[w].i + 1],
                              !.visited = @ \cup {frame[w].to_visit[frame[w].i + 1]},
                              !.pc = "scrape"]]
    /\ UNCHANGED <<web, workers, gui, done_queue, page>>

EndLevelRestarts(w) ==
    /\ Running(w)
    /\ frame[w].pc = "url"
    /\ frame[w].i >= Len(frame[w].to_visit)
    /\ frame' = [frame EXCEPT ![w] = [@ EXCEPT !.i = 0]]
    /\ UNCHANGED <<web, workers, gui, done_queue, page>>

\* line 141 exhausted, line 168: to_visit = next_links
EndLevel(w) ==
    /\ Running(w)
    /\ frame[w].pc = "url"
    /\ frame[w].i >= Len(frame[w].to_visit)
    /\ frame' = [frame EXCEPT ![w] = [@ EXCEPT !.pc = "level",
                                               !.to_visit = frame[w].next_links]]
    /\ UNCHANGED <<web, workers, gui, done_queue, page>>

\* lines 146-151, scrape_article lines 76-78: the render fails, no markup, None
ScrapeRenderFails(w) ==
    /\ Running(w)
    /\ frame[w].pc = "scrape"
    /\ frame' = [frame EXCEPT ![w] =
                    [@ EXCEPT !.renders[frame[w].url] = @ + 1,
                              !.saved_file = None,
                              !.total_files = CountSaved(@, None),
                              !.pc = "links"]]
    /\ UNCHANGED <<web, workers, gui, done_queue, page>>

\* lines 146-151, scrape_article lines 76-125: the page is rendered and saved
ScrapeSaved(w) ==
    /\ Running(w)
    /\ frame[w].pc = "scrape"
    /\ frame' = [frame EXCEPT ![w] =
                    [@ EXCEPT !.renders[frame[w].url] = @ + 1,
                              !.files = @ + 1,
                              !.saved_file = Path,
                              !.total_files = CountSaved(@, Path),
                              !.pc = "links"]]
    /\ UNCHANGED <<web, workers, gui, done_queue, page>>

\* scrape_article lines 76-119: the page is rendered, open() or write() raises;
\* neither scrape_article nor run_scraper catches it
ScrapeWriteFails(w) ==
    /\ Running(w)
    /\ frame[w].pc = "scrape"
    /\ frame' = [frame EXCEPT ![w] =
                    [@ EXCEPT !.renders[frame[w].url] = @ + 1,
                              !.pc = "raised"]]
    /\ UNCHANGED <<web, workers, gui, done_queue, page>>

LinksRenderFailsForgets(w) ==
    /\ Running(w)
    /\ frame[w].pc = "links"
    /\ frame' = [frame EXCEPT ![w] = [@ EXCEPT !.html = None,
                                               !.visited = @ \ {frame[w].url},
                                               !.pc = "url"]]
    /\ UNCHANGED <<web, workers, gui, done_queue, page>>

\* lines 154-156: the render for link discovery fails: continue
LinksRenderFails(w) ==
    /\ Running(w)
    /\ frame[w].pc = "links"
    /\ frame' = [frame EXCEPT ![w] = [@ EXCEPT !.html = None, !.pc = "url"]]
    /\ UNCHANGED <<web, workers, gui, done_queue, page>>

\* lines 154-166: the links are collected, then the safety limit is checked
LinksCollected(w) ==
    /\ Running(w)
    /\ frame[w].pc = "links"
    /\ \E order \in Orders(extract_links(frame[w].url)) :
          frame' = [frame EXCEPT ![w] =
                       [@ EXCEPT !.html = Markup,
                                 !.next_links = ExtendLinks(@, order),
                                 !.pc = IF LimitReached(frame[w].total_files)
                                        THEN "returned" ELSE "url",
                                 !.result = IF LimitReached(frame[w].total_files)
                                            THEN frame[w].total_files ELSE @]]
    /\ UNCHANGED <<web, workers, gui, done_queue, page>>

----------------------------------------------------------------------------
(* ScraperThread.run *)

\* lines 61-67: run_scraper returned: done_signal.emit(1 if result else 0)
ThreadDone(w) ==
    /\ Running(w)
    /\ frame[w].pc = "returned"
    /\ done_queue' = Append(done_queue, DoneCount(frame[w].result))
    /\ workers' = [workers EXCEPT ![w].state = "finished",
                                  ![w].emitted = Append(@, DoneCount(frame[w].result))]
    /\ UNCHANGED <<web, frame, gui, page>>

ThreadFailedReportsTotal(w) ==
    /\ Running(w)
    /\ frame[w].pc = "raised"
    /\ done_queue' = Append(done_queue, DoneCount(frame[w].total_files))
    /\ workers' = [workers EXCEPT ![w].state = "finished",
                                  ![w].emitted = Append(@, DoneCount(frame[w].total_files))]
    /\ UNCHANGED <<web, frame, gui, page>>

\* lines 68-70: run_scraper raised: the error is logged, done_signal.emit(0)
ThreadFailed(w) ==
    /\ Running(w)
    /\ frame[w].pc = "raised"
    /\ done_queue' = Append(done_queue, 0)
    /\ workers' = [workers EXCEPT ![w].state = "finished",
                                  ![w].emitted = Append(@, 0)]
    /\ UNCHANGED <<web, frame, gui, page>>

Crawl(w) ==
    \/ ForLevel(w)
    \/ ReturnTotal(w)
    \/ SkipVisited(w)
    \/ TakeUrl(w)
    \/ EndLevel(w)
    \/ ScrapeRenderFails(w)
    \/ ScrapeSaved(w)
    \/ ScrapeWriteFails(w)
    \/ LinksRenderFails(w)
    \/ LinksCollected(w)
    \/ ThreadDone(w)
    \/ ThreadFailed(w)

Next == \E w \in Threads : Crawl(w)

Spec == Init /\ [][Next]_vars

\* the worker thread is scheduled as long as it has a step to take, and every
\* render, extract and write call comes back
SpecFair == Spec /\ WF_vars(Next)

----------------------------------------------------------------------------
(* Properties of run_scraper, checked under Spec *)

InCall(w) == workers[w].state = "running" /\ frame[w].pc \notin {"returned", "raised"}

\* the URLs rendered for extraction so far
Rendered(w) == {u \in Urls : frame[w].renders[u] > 0}

\* C1: the running counter never exceeds 50 in any reachable state, and the
\* total that run_scraper returns is at most 50.
C1_Ceiling ==
    \A w \in Threads :
        /\ frame[w].total_files <= PageLimit
        /\ frame[w].pc = "returned" => frame[w].result <= PageLimit

\* C2: once the counter has reached 50 the crawl does nothing but finish the
\* link-discovery render of the URL that brought it there and return: it is
\* never back at the head of the per-URL loop, and never renders another URL.
C2_StopsAtLimit ==
    \A w \in Threads :
        frame[w].total_files >= PageLimit => frame[w].pc \in {"links", "returned"}

\* C3: within one invocation every URL is rendered for extraction at most
\* once, every rendered URL is in visited, and neither the files written nor
\* the counter exceed the number of URLs rendered.
C3_RenderedOnce ==
    \A w \in Threads :
        /\ \A u \in Urls : frame[w].renders[u] <= 1
        /\ Rendered(w) \subseteq frame[w].visited
        /\ frame[w].files <= Cardinality(Rendered(w))
        /\ frame[w].total_files <= Cardinality(Rendered(w))

\* C3 witness: a URL already rendered stands a second time in the same
\* frontier, the loop has passed it, and it was rendered once only.
C3_Witness ==
    \E w \in Threads : \E j \in 1..Len(frame[w].to_visit) :
        /\ j < frame[w].i
        /\ frame[w].to_visit[j] = frame[w].to_visit[frame[w].i]
        /\ frame[w].pc = "url"
        /\ frame[w].level > 1
        /\ frame[w].renders[frame[w].to_visit[j]] = 1

\* C4: with depth = d at most d levels are processed, and the URLs that were
\* discovered in the last level and not visited before are never rendered.
C4_DepthBound ==
    \A w \in Threads :
        /\ frame[w].level <= workers[w].depth
        /\ frame[w].pc = "returned" =>
              \A u \in Range(frame[w].next_links) \ frame[w].visited :
                  frame[w].renders[u] = 0

\* C4 witness: run_scraper returned after its last level, whose candidate
\* frontier holds a URL that was never visited.
C4_Witness ==
    \E w \in Threads :
        /\ frame[w].pc = "returned"
        /\ frame[w].level = workers[w].depth
        /\ frame[w].total_files < PageLimit
        /\ Range(frame[w].next_links) \ frame[w].visited # {}

\* C5: every invocation ends: run_scraper returns, unless a write raised (a
\* write that raises does not return, and the exception leaves run_scraper).
C5_Terminates == <>(frame[1].pc = "returned" \/ frame[1].pc = "raised")

\* C5 witness: run_scraper returned from a web with self links and a cycle,
\* having visited every page of the cycle and gone through more levels than
\* the cycle has pages.
C5_Witness ==
    /\ web = SelfLoopWeb
    /\ frame[1].pc = "returned"
    /\ frame[1].level = workers[1].depth
    /\ frame[1].visited = RingUrls
    /\ frame[1].level > Cardinality(frame[1].visited)

\* C6: a step of scrape_article whose render fails returns None, writes no
\* file, leaves the counter, visited and the frontier as they were, has
\* rendered the URL once, and run_scraper goes on with the same level.
C6_RenderFailureSkips ==
    [][\A w \in Threads :
          (/\ frame[w].pc = "scrape"
           /\ frame'[w].pc \notin {"scrape", "raised"}
           /\ frame'[w].saved_file = None)
          => /\ frame'[w].pc = "links"
             /\ frame'[w].files = frame[w].files
             /\ frame'[w].total_files = frame[w].total_files
             /\ frame'[w].visited = frame[w].visited
             /\ frame[w].url \in frame'[w].visited
             /\ frame'[w].renders[frame[w].url] = 1
             /\ frame'[w].to_visit = frame[w].to_visit
             /\ frame'[w].i = frame[w].i
             /\ frame'[w].level = frame[w].level]_vars

\* C6 witness: the extraction render of the first of two frontier URLs has
\* failed and the crawl stands before that URL's link discovery.
C6_Witness ==
    \E w \in Threads :
        /\ frame[w].pc = "links"
        /\ frame[w].saved_file = None
        /\ frame[w].i = 1
        /\ Len(frame[w].to_visit) = 2
        /\ frame[w].total_files = 1
        /\ frame[w].url \in frame[w].visited

\* C7 as claimed: a write failure never ends the crawl: every run of
\* run_scraper ends by returning the number of files it wrote.
C7_WriteFailureLocal ==
    \A w \in Threads :
        workers[w].state = "finished" =>
            frame[w].pc = "returned" /\ frame[w].result = frame[w].files

\* C7 amended: a write failure leaves the counter and the files as they were
\* and ends the crawl: after it run_scraper takes no further step, returns no
\* total, and ScraperThread.run emits done_signal with 0.
C7_WriteFailureAborts ==
    [][\A w \in Threads :
          /\ (frame[w].pc = "scrape" /\ frame'[w].pc = "raised")
             => /\ frame'[w].total_files = frame[w].total_files
                /\ frame'[w].files = frame[w].files
                /\ frame'[w].visited = frame[w].visited
          /\ frame[w].pc = "raised" => frame'[w] = frame[w]
          /\ (frame[w].pc = "raised" /\ workers[w].state # workers'[w].state)
             => /\ workers'[w].state = "finished"
                /\ done_queue' = Append(done_queue, 0)]_vars

\* C7 witness: the thread ended on a write failure after one file had been
\* written, with a URL of the frontier still unprocessed.
C7_Witness ==
    \E w \in Threads :
        /\ frame[w].pc = "raised"
        /\ workers[w].state = "finished"
        /\ frame[w].files = 1
        /\ frame[w].i < Len(frame[w].to_visit)
        /\ frame[w].to_visit[frame[w].i + 1] \notin frame[w].visited

\* C8: a failed link-discovery render leaves visited, the counter, the files
\* and the candidate list as they were and goes back to the head of the
\* per-URL loop of the same level; the counter is never decremented.
C8_LinkFailureFrame ==
    [][\A w \in Threads :
          /\ (frame[w].pc = "links" /\ frame'[w].pc # "links" /\ frame'[w].html = None)
             => /\ frame'[w].pc = "url"
                /\ frame'[w].visited = frame[w].visited
                /\ frame[w].url \in frame'[w].visited
                /\ frame'[w].total_files = frame[w].total_files
                /\ frame'[w].files = frame[w].files
                /\ frame'[w].next_links = frame[w].next_links
                /\ frame'[w].to_visit = frame[w].to_visit
                /\ frame'[w].i = frame[w].i
                /\ frame'[w].level = frame[w].level
          /\ frame[w].pc # "idle" => frame'[w].total_files >= frame[w].total_files]_vars

\* C8 witness: the start page was saved, its link-discovery render failed, and
\* the crawl is back at the loop head with nothing collected from a page that
\* has links.
C8_Witness ==
    \E w \in Threads :
        /\ frame[w].pc = "url"
        /\ frame[w].level = 1
        /\ frame[w].i = 1
        /\ frame[w].html = None
        /\ frame[w].saved_file = Path
        /\ frame[w].total_files = 1
        /\ frame[w].url \in frame[w].visited
        /\ extract_links(frame[w].url) # {}
        /\ frame[w].next_links = <<>>

\* C14: the candidate list starts empty in every level, grows by the whole
\* link set of a URL (in some order, duplicates and visited URLs included)
\* when that URL's link-discovery render succeeds and by nothing otherwise,
\* and at the end of the level the frontier becomes exactly that list; the
\* frontier changes at no other step.
C14_NextFrontier ==
    [][\A w \in Threads :
          /\ (frame[w].pc = "url" /\ frame'[w].pc = "level")
             => /\ frame'[w].to_visit = frame[w].next_links
                /\ frame'[w].next_links = frame[w].next_links
          /\ (frame[w].pc = "level" /\ frame'[w].pc = "url")
             => frame'[w].next_links = <<>>
          /\ (frame[w].pc = "links" /\ frame'[w].pc # "links" /\ frame'[w].html = Markup)
             => /\ Len(frame'[w].next_links)
                      = Len(frame[w].next_links) + Cardinality(web[frame[w].url])
                /\ SubSeq(frame'[w].next_links, 1, Len(frame[w].next_links))
                      = frame[w].next_links
                /\ {frame'[w].next_links[k] :
                       k \in (Len(frame[w].next_links) + 1)..Len(frame'[w].next_links)}
                      = web[frame[w].url]
          /\ (frame[w].pc = "links" /\ frame'[w].html = None)
             => frame'[w].next_links = frame[w].next_links
          /\ frame[w].pc \in {"url", "scrape"}
             => frame'[w].next_links = frame[w].next_links
          /\ (frame[w].pc \in {"level", "scrape", "links"}
                \/ (frame[w].pc = "url" /\ frame'[w].pc # "level"))
             => frame'[w].to_visit = frame[w].to_visit]_vars

\* C14 witness: the second level has ended below the limit, and the frontier
\* of the third is the four links of the two pages of the second, with a
\* link that occurs twice and a link that is already in visited.
C14_Witness ==
    \E w \in Threads :
        /\ frame[w].pc = "level"
        /\ frame[w].level = 2
        /\ frame[w].total_files < PageLimit
        /\ frame[w].to_visit = frame[w].next_links
        /\ Len(frame[w].to_visit) = 4
        /\ \E j, k \in 1..4 : j < k /\ frame[w].to_visit[j] = frame[w].to_visit[k]
        /\ \E k \in 1..4 : frame[w].to_visit[k] \in frame[w].visited

----------------------------------------------------------------------------
(* File names: safe_filename, get_timestamp, scrape_article lines 82-86 *)

\* A string is a sequence of characters, a character a one-character string.

\* the characters of the modelled titles for which str.isalnum() is true
AlnumChars ==
    {"a", "Z", "7", "é", "H", "e", "l", "o", "W", "r", "d", "T", "s", "t", "x",
     "u", "n", "i", "0", "1", "2", "3", "4", "5", "6", "8", "9"}

\* the characters titles are made of: letters, a digit, an accented letter,
\* the four characters safe_filename names, and punctuation
TitleChars == {"a", "Z", "7", "é", " ", "-", "_", ".", ",", "!", "<", ">", "/"}
PadChars == {"x", "<"}

\* str.isalnum() of one character
isalnum(c) == c \in AlnumChars

KeepPunctuation(c) == isalnum(c) \/ c \in {" ", "-", "_", ".", ",", "!"}

\* safe_filename line 18: c.isalnum() or c in " -_."
Keep(c) == isalnum(c) \/ c \in {" ", "-", "_", "."}

Min(a, b) == IF a <= b THEN a ELSE b

\* safe_filename line 18: "".join(c if ... else "_" for c in name)
Sanitized(name) == [k \in 1..Len(name) |-> IF Keep(name[k]) THEN name[k] ELSE "_"]

safe_filename_untruncated(name) == Sanitized(name)

\* safe_filename (scraper.py lines 17-18, utils.py lines 9-10)
safe_filename(name) == SubSeq(Sanitized(name), 1, Min(Len(name), NameLimit))

\* one decimal digit as a character
DigitChar(n) == <<"0", "1", "2", "3", "4", "5", "6", "7", "8", "9">>[n + 1]

\* strftime %m, %d, %H, %M, %S: two digits, zero padded
Pad2(n) == <<DigitChar(n \div 10), DigitChar(n % 10)>>

\* strftime %Y for the years 1000..9999
Year4(y) ==
    <<DigitChar(y \div 1000), DigitChar((y \div 100) % 10),
      DigitChar((y \div 10) % 10), DigitChar(y % 10)>>

get_timestamp_colons(now) ==
    Year4(now.Y) \o <<"-">> \o Pad2(now.M) \o <<"-">> \o Pad2(now.D) \o <<"_">>
    \o Pad2(now.h) \o <<":">> \o Pad2(now.m) \o <<":">> \o Pad2(now.s)

\* get_timestamp line 15: datetime.now().strftime("%Y-%m-%d_%H-%M-%S")
get_timestamp(now) ==
    Year4(now.Y) \o <<"-">> \o Pad2(now.M) \o <<"-">> \o Pad2(now.D) \o <<"_">>
    \o Pad2(now.h) \o <<"-">> \o Pad2(now.m) \o <<"-">> \o Pad2(now.s)

\* scrape_article line 84: the fallback title
Untitled == <<"u", "n", "t", "i", "t", "l", "e", "d">>

TxtExtension == <<".", "t", "x", "t">>

\* the title "Hello, World! <Test>"
HelloTitle ==
    <<"H", "e", "l", "l", "o", ",", " ", "W", "o", "r", "l", "d", "!", " ",
      "<", "T", "e", "s", "t", ">">>

\* the titles of the modelled pages: a free head followed by one character
\* repeated, to lengths around NameLimit
Heads == UNION {[1..n -> TitleChars] : n \in 0..MaxHead}
PadLens == {0} \cup {n \in 1..(NameLimit + MaxSlack) : n + MaxHead + MaxSlack >= NameLimit}
Titles ==
    {h \o [k \in 1..n |-> c] : h \in Heads, c \in PadChars, n \in PadLens}
    \cup {HelloTitle}

\* the values datetime.now() takes in the modelled runs
Clocks ==
    {[Y |-> 2025, M |-> 1, D |-> 9, h |-> 0, m |-> 5, s |-> 59],
     [Y |-> 1999, M |-> 12, D |-> 31, h |-> 23, m |-> 40, s |-> 7]}

\* scrape_article line 80: a rendered page, with a <title> element or without
InitFile ==
    /\ web = LeafWeb
    /\ workers = [w \in Threads |-> NoThread]
    /\ frame = [w \in Threads |-> NoFrame]
    /\ gui = NewGui
    /\ done_queue = <<>>
    /\ \E tag \in Titles, now \in Clocks :
          \/ page = [NoPage EXCEPT !.pc = "soup", !.has_title = TRUE,
                                   !.title_tag = tag, !.now = now]
          \/ page = [NoPage EXCEPT !.pc = "soup", !.now = now]

\* scrape_article lines 83-84: the text of the title element, else "untitled"
FindTitle ==
    /\ page.pc = "soup"
    /\ page' = [page EXCEPT !.pc = "title",
                            !.title = IF page.has_title THEN page.title_tag
                                                               ELSE Untitled]
    /\ UNCHANGED <<web, workers, frame, gui, done_queue>>

\* scrape_article line 85: f"{safe_filename(title)}_{get_timestamp()}.txt"
MakeFilename ==
    /\ page.pc = "title"
    /\ page' = [page EXCEPT !.pc = "named",
                            !.safe = safe_filename(page.title),
                            !.filename = safe_filename(page.title) \o <<"_">>
                                         \o get_timestamp(page.now) \o TxtExtension]
    /\ UNCHANGED <<web, workers, frame, gui, done_queue>>

NextFile == FindTitle \/ MakeFilename

SpecFile == InitFile /\ [][NextFile]_vars

----------------------------------------------------------------------------
(* Properties of the file names, checked under SpecFile *)

\* the characters a file name may hold according to the specification
Allowed(c) == c \in AlnumChars \cup {" ", "-", "_", "."}

\* the file name without its ".txt" extension
Stem(filename) == SubSeq(filename, 1, Len(filename) - Len(TxtExtension))

\* C11: the result of safe_filename has at most 100 characters, all of them
\* alphanumeric, a space or one of - _ . ; over the first 100 characters of
\* the input, a character of these classes is kept and any other is "_".
C11_SafeFilename ==
    page.pc = "named" =>
        /\ Len(page.safe) <= NameLimit
        /\ Len(page.safe) <= Len(page.title)
        /\ Len(page.safe) = NameLimit \/ Len(page.safe) = Len(page.title)
        /\ \A k \in 1..Len(page.safe) :
              /\ Allowed(page.safe[k])
              /\ Allowed(page.title[k]) => page.safe[k] = page.title[k]
              /\ ~Allowed(page.title[k]) => page.safe[k] = "_"

\* C11 witness: a title of more than 100 characters, some of them outside the
\* allowed classes, has been sanitised.
C11_Witness ==
    /\ page.pc = "named"
    /\ Len(page.title) > NameLimit
    /\ \E k \in 1..NameLimit : ~Allowed(page.title[k])
    /\ \E k \in 1..NameLimit : Allowed(page.title[k]) /\ page.title[k] # "_"

\* the file name base the statement gives for "Hello, World! <Test>"
HelloClaimed ==
    <<"H", "e", "l", "l", "o", ",", " ", "W", "o", "r", "l", "d", "!", " ",
      "_", "T", "e", "s", "t", "_">>

\* the file name base with the comma and the exclamation mark replaced as well
HelloSanitized ==
    <<"H", "e", "l", "l", "o", "_", " ", "W", "o", "r", "l", "d", "_", " ",
      "_", "T", "e", "s", "t", "_">>

\* C12 as claimed: for the title "Hello, World! <Test>" the file name is
\* "Hello, World! _Test_", then "_", the timestamp and ".txt".
C12_HelloCommaKept ==
    (page.pc = "named" /\ page.title = HelloTitle) =>
        page.filename = HelloClaimed \o <<"_">> \o get_timestamp(page.now) \o TxtExtension

\* C12 amended: for the title "Hello, World! <Test>" the file name is
\* "Hello_ World_ _Test_" (the comma, "!", "<" and ">" are each replaced by
\* "_"), then "_", the 19 characters of the timestamp and ".txt".
C12_HelloSanitized ==
    (page.pc = "named" /\ page.title = HelloTitle) =>
        /\ page.safe = HelloSanitized
        /\ Len(page.filename) = Len(HelloSanitized) + 1 + TimestampLen + Len(TxtExtension)
        /\ SubSeq(page.filename, 1, Len(HelloSanitized)) = HelloSanitized
        /\ page.filename[Len(HelloSanitized) + 1] = "_"
        /\ SubSeq(page.filename, Len(page.filename) - 3, Len(page.filename)) = TxtExtension

\* C12 witness: the page titled "Hello, World! <Test>" has got its file name.
C12_Witness == page.pc = "named" /\ page.has_title /\ page.title = HelloTitle

\* C13 as claimed: the file name before ".txt" has at most 100 characters,
\* all of them alphanumeric, a space or one of - _ .
C13_StemWithinLimit ==
    page.pc = "named" =>
        /\ Len(Stem(page.filename)) <= NameLimit
        /\ \A k \in 1..Len(Stem(page.filename)) : Allowed(Stem(page.filename)[k])

\* C13 amended: the file name before ".txt" is the sanitised title, of at
\* most 100 characters, then "_" and the 19 characters of the timestamp: at
\* most 120 characters, all of them alphanumeric, a space or one of - _ .
C13_StemWithinTitleAndTimestamp ==
    page.pc = "named" =>
        /\ Len(page.safe) <= NameLimit
        /\ Len(Stem(page.filename)) = Len(page.safe) + 1 + TimestampLen
        /\ Len(Stem(page.filename)) <= NameLimit + 1 + TimestampLen
        /\ SubSeq(page.filename, 1, Len(page.safe)) = page.safe
        /\ \A k \in 1..Len(Stem(page.filename)) : Allowed(Stem(page.filename)[k])

\* C13 witness: a title of at least 100 characters has become a file name of
\* 120 characters before the extension.
C13_Witness ==
    /\ page.pc = "named"
    /\ Len(page.title) >= NameLimit
    /\ Len(Stem(page.filename)) = NameLimit + 1 + TimestampLen

----------------------------------------------------------------------------
(* MainWindow *)

\* MainWindow.__init__: no ScraperThread yet
InitGui ==
    /\ web \in GuiWebs
    /\ workers = [w \in Threads |-> NoThread]
    /\ frame = [w \in Threads |-> NoFrame]
    /\ gui = NewGui
    /\ done_queue = <<>>
    /\ page = NoPage

\* stop_scraper line 293: "Scraper stopped."
StoppedLine == [line |-> "stopped", count |-> 0]

\* on_scraper_done line 298: "Done. Scraped {count} file(s)."
DoneLine(count) == [line |-> "done", count |-> count]

\* the ScraperThread object the next start_scraper constructs
Fresh(w) ==
    /\ workers[w].state = "unused"
    /\ \A v \in Threads : v < w => workers[v].state # "unused"

\* start_scraper lines 273-279: the URL field is empty: a warning, nothing else
StartScraperNoUrl ==
    /\ gui.start_enabled
    /\ UNCHANGED vars

\* start_scraper lines 273-288: a new ScraperThread replaces self.thread and starts
StartScraper ==
    /\ gui.start_enabled
    /\ \E w \in Threads, url \in GuiUrls, depth \in GuiDepths :
          /\ Fresh(w)
          /\ workers' = [workers EXCEPT ![w] = NewThread(url, depth)]
          /\ frame' = [frame EXCEPT ![w] = NewFrame(url)]
          /\ gui' = [gui EXCEPT !.thread = w,
                                !.start_enabled = FALSE,
                                !.stop_enabled = TRUE,
                                !.dashboard_log = <<>>]
    /\ UNCHANGED <<web, done_queue, page>>

\* ScraperThread.stop lines 55-56, reached from stop_scraper lines 291-292
StopRequested(ws, w) ==
    IF w # 0 /\ ws[w].state = "running"
    THEN [ws EXCEPT ![w].stop_event = TRUE]
    ELSE ws

\* stop_scraper lines 290-295
StopScraper ==
    /\ gui.stop_enabled
    /\ workers' = StopRequested(workers, gui.thread)
    /\ gui' = [gui EXCEPT !.start_enabled = TRUE,
                          !.stop_enabled = FALSE,
                          !.dashboard_log = Append(@, StoppedLine)]
    /\ UNCHANGED <<web, frame, done_queue, page>>

\* on_scraper_done lines 297-303, run for the oldest queued done_signal
OnScraperDone ==
    /\ done_queue # <<>>
    /\ gui' = [gui EXCEPT !.start_enabled = TRUE,
                          !.stop_enabled = FALSE,
                          !.dashboard_log = Append(@, DoneLine(Head(done_queue)))]
    /\ done_queue' = Tail(done_queue)
    /\ UNCHANGED <<web, workers, frame, page>>

NextGui ==
    \/ StartScraperNoUrl
    \/ StartScraper
    \/ StopScraper
    \/ OnScraperDone
    \/ \E w \in Threads : Crawl(w)

SpecGui == InitGui /\ [][NextGui]_vars

----------------------------------------------------------------------------
(* Properties of the GUI, checked under SpecGui *)

\* C9: a ScraperThread whose stop flag is set takes no further URL from the
\* frontier: it renders nothing and writes nothing for a new URL.
C9_NoWorkAfterStop ==
    [][\A w \in Threads :
          workers[w].stop_event => ~(frame[w].pc = "url" /\ frame'[w].pc = "scrape")]_vars

\* C10: at most one ScraperThread is executing run_scraper at any moment.
C10_SingleWorker == Cardinality({w \in Threads : InCall(w)}) <= 1

----------------------------------------------------------------------------
(* One crawl started from the GUI, up to the display of its result *)

\* start_scraper, clicked for the first time in the session
StartScraperOnce == gui.thread = 0 /\ StartScraper

NextSession ==
    \/ StartScraperNoUrl
    \/ StartScraperOnce
    \/ StopScraper
    \/ OnScraperDone
    \/ \E w \in Threads : Crawl(w)

SpecSession == InitGui /\ [][NextSession]_vars

\* the "Done. Scraped <count> file(s)." lines of the log
DoneLines == {k \in 1..Len(gui.dashboard_log) : gui.dashboard_log[k].line = "done"}

\* C15: a ScraperThread emits done_signal exactly once, when its run ends:
\* with 1 when run_scraper returned a positive total, with 0 when it returned
\* 0 or raised; every count emitted, queued or shown is 0 or 1, and each
\* emission is shown once.
C15_DoneOnce ==
    /\ \A w \in Threads :
          /\ workers[w].state # "finished" => workers[w].emitted = <<>>
          /\ workers[w].state = "finished" =>
                /\ Len(workers[w].emitted) = 1
                /\ frame[w].pc \in {"returned", "raised"}
                /\ workers[w].emitted[1] =
                      IF frame[w].pc = "returned" /\ frame[w].result > 0 THEN 1 ELSE 0
          /\ frame[w].pc = "returned" => frame[w].result = frame[w].total_files
    /\ \A k \in 1..Len(done_queue) : done_queue[k] \in {0, 1}
    /\ \A k \in DoneLines : gui.dashboard_log[k].count \in {0, 1}
    /\ Cardinality(DoneLines) + Len(done_queue)
          = Cardinality({w \in Threads : workers[w].state = "finished"})

\* C15 witness: a crawl that wrote two files has ended and the log shows
\* "Done. Scraped 1 file(s)." for it.
C15_Witness ==
    \E w \in Threads :
        /\ workers[w].state = "finished"
        /\ frame[w].pc = "returned"
        /\ frame[w].files = 2
        /\ frame[w].result = 2
        /\ workers[w].emitted = <<1>>
        /\ done_queue = <<>>
        /\ \E k \in DoneLines : gui.dashboard_log[k].count = 1

====
